---------------------------- MODULE Spec2Model ----------------------------
(***************************************************************************)
(* Model of src/convert_bw.py: three grayscale converters, the profiling   *)
(* harness profile_function, and the driver main.                          *)
(*                                                                         *)
(* Floating point.  Every arithmetic step of the converters is an IEEE-754 *)
(* binary64 operation.  All values that occur are non-negative and below   *)
(* 2^9, and every exact intermediate is a multiple of 2^-56, so a value is *)
(* held as an exact integer count of 2^-56 units, split into three limbs   *)
(* of 22 bits <<low, mid, high>> (TLC integers are 32 bits wide).  Each    *)
(* multiplication and addition is computed exactly and then rounded to 53  *)
(* significant bits, ties to even, which is what the hardware does.        *)
(***************************************************************************)
EXTENDS Integers, Sequences, FiniteSets, TLC

\* ------------------------------------------------------------------ bounds
MaxEvents == 2      \* allocation/free events of one wrapped call
MaxBlock == 2       \* largest traced block a wrapped call allocates
MaxClockAlloc == 1  \* most traced memory one clock read allocates

\* ------------------------------------------------------- binary64 numbers
LimbBits == 22
Limb == 2^LimbBits
UnitBits == 56
MantissaBits == 53

\* carry propagation of a three-limb number
Norm(v) ==
    LET c1 == v[1] \div Limb
        m  == v[2] + c1
        c2 == m \div Limb
    IN  <<v[1] % Limb, m % Limb, v[3] + c2>>

FromInt(n) == <<0, 0, n * 2^(UnitBits - 2 * LimbBits)>>

BitLen(x) == CHOOSE n \in 0..31 : x < 2^n /\ (n = 0 \/ x >= 2^(n - 1))

BitLen3(v) ==
    IF v[3] > 0 THEN 2 * LimbBits + BitLen(v[3])
    ELSE IF v[2] > 0 THEN LimbBits + BitLen(v[2])
    ELSE BitLen(v[1])

\* round an exact value to the nearest binary64, ties to even
RoundToDouble(v) ==
    LET len == BitLen3(v)
    IN  IF len <= MantissaBits THEN v
        ELSE LET s    == len - MantissaBits
                 q    == 2^s
                 rem  == v[1] % q
                 half == q \div 2
                 odd  == (v[1] \div q) % 2 = 1
                 up   == rem > half \/ (rem = half /\ odd)
             IN  Norm(<<(v[1] - rem) + (IF up THEN q ELSE 0), v[2], v[3]>>)

\* float64 constant * uint8 sample (the sample converts to float64 exactly)
fmul(w, k) == RoundToDouble(Norm(<<w[1] * k, w[2] * k, w[3] * k>>))

fadd(a, b) == RoundToDouble(Norm(<<a[1] + b[1], a[2] + b[2], a[3] + b[3]>>))

Less(a, b) ==
    \/ a[3] < b[3]
    \/ a[3] = b[3] /\ a[2] < b[2]
    \/ a[3] = b[3] /\ a[2] = b[2] /\ a[1] < b[1]

\* the binary64 values of the literals 0.2989, 0.5870 and 0.1140
W_R == <<409364, 1234803, 1224>>
W_G == <<33552, 1476395, 2404>>
\* variant: the binary64 value of 0.1240
W_B_typo == <<3422552, 3791650, 507>>
\* 0.1140
W_B == <<4093641, 3959422, 466>>

\* 0.2989 * r + 0.5870 * g + 0.1140 * b, evaluated left to right
WeightedSum(p) == fadd(fadd(fmul(W_R, p[1]), fmul(W_G, p[2])), fmul(W_B, p[3]))

IntPart(v) == v[3] \div 2^(UnitBits - 2 * LimbBits)
FracHigh(v) == v[3] % 2^(UnitBits - 2 * LimbBits)
HalfHigh == 2^(UnitBits - 2 * LimbBits - 1)
IsHalf(v) == FracHigh(v) = HalfHigh /\ v[2] = 0 /\ v[1] = 0
AboveHalf(v) == FracHigh(v) > HalfHigh \/ (FracHigh(v) = HalfHigh /\ (v[2] > 0 \/ v[1] > 0))

\* truncation toward zero
trunc(v) == IntPart(v)

\* numpy's np.round ufunc with decimals=0 is rint: nearest integer, ties to even
np_round(v) ==
    IF AboveHalf(v) \/ (IsHalf(v) /\ IntPart(v) % 2 = 1) THEN IntPart(v) + 1
    ELSE IntPart(v)

\* numba's np.round of a float64 scalar lowers to the llvm.rint intrinsic
numba_round_scalar(v) ==
    IF AboveHalf(v) THEN IntPart(v) + 1
    ELSE IF IsHalf(v) THEN IntPart(v) + (IntPart(v) % 2)
    ELSE IntPart(v)

\* conversion of an integral float64 to uint8
astype_uint8(n) == n % 256

\* ------------------------------------------------------------------ images
\* An image is its shape and its samples: data[y][x] is <<r, g, b>> for a
\* colour image (shape <<H, W, 3>>) and one sample for a grayscale JPEG, which
\* io.imread decodes to a 2-dimensional array (shape <<H, W>>).
MkImage(rows) == [shape |-> <<Len(rows), Len(rows[1]), 3>>, data |-> rows]
MkGray(rows) == [shape |-> <<Len(rows), Len(rows[1])>>, data |-> rows]

Ok(v) == [raised |-> FALSE, value |-> v, exc |-> "none"]
Raise(e) == [raised |-> TRUE, value |-> <<>>, exc |-> e]

\* image[:, :, c]
Channel(image, c) ==
    [y \in 1..image.shape[1] |-> [x \in 1..image.shape[2] |-> image.data[y][x][c]]]

\* whole-array steps of the vectorised expression
ArrScale(w, plane) == [y \in DOMAIN plane |-> [x \in DOMAIN plane[y] |-> fmul(w, plane[y][x])]]
ArrAdd(a, b) == [y \in DOMAIN a |-> [x \in DOMAIN a[y] |-> fadd(a[y][x], b[y][x])]]
ArrRound(a) == [y \in DOMAIN a |-> [x \in DOMAIN a[y] |-> np_round(a[y][x])]]
ArrAsUint8(a) == [y \in DOMAIN a |-> [x \in DOMAIN a[y] |-> astype_uint8(a[y][x])]]

convert_numpy(image) ==
    IF Len(image.shape) # 3 THEN Raise("IndexError")
    ELSE LET bw_image == ArrRound(ArrAdd(ArrAdd(ArrScale(W_R, Channel(image, 1)),
                                                ArrScale(W_G, Channel(image, 2))),
                                         ArrScale(W_B, Channel(image, 3))))
         IN  Ok(ArrAsUint8(bw_image))

\* Under @jit the array expression is compiled to one fused per-element
\* kernel, and np.round of the array applies the scalar rounding per element.
jit_kernel(p) == fadd(fadd(fmul(W_R, p[1]), fmul(W_G, p[2])), fmul(W_B, p[3]))

convert_numba(image) ==
    IF Len(image.shape) # 3 THEN Raise("TypingError")
    ELSE LET summed == [y \in 1..image.shape[1] |->
                          [x \in 1..image.shape[2] |-> jit_kernel(image.data[y][x])]]
             bw_image == [y \in DOMAIN summed |->
                          [x \in DOMAIN summed[y] |-> numba_round_scalar(summed[y][x])]]
         IN  Ok(ArrAsUint8(bw_image))

\* np.empty: an array whose cells hold whatever the memory held (fill)
np_empty(h, w, fill) == [y \in 1..h |-> [x \in 1..w |-> fill]]

\* the float64 -> uint8 conversion of the store bw_image[y, x] = ...
store_uint8(n) == n % 256

\* the same sum rounded half away from zero
loop_pixel_half_up(p) ==
    LET v == fadd(fadd(fmul(W_R, p[1]), fmul(W_G, p[2])), fmul(W_B, p[3]))
    IN  IF AboveHalf(v) \/ IsHalf(v) THEN IntPart(v) + 1 ELSE IntPart(v)

\* np.round(0.2989 * r + 0.5870 * g + 0.1140 * b) on scalars
loop_pixel(p) ==
    numba_round_scalar(fadd(fadd(fmul(W_R, p[1]), fmul(W_G, p[2])), fmul(W_B, p[3])))

RECURSIVE loop_x(_, _, _, _)
loop_x(image, bw_image, y, x) ==
    IF x > image.shape[2] THEN bw_image
    ELSE loop_x(image,
                [bw_image EXCEPT ![y][x] = store_uint8(loop_pixel(image.data[y][x]))],
                y, x + 1)

RECURSIVE loop_y(_, _, _)
loop_y(image, bw_image, y) ==
    IF y > image.shape[1] THEN bw_image
    ELSE loop_y(image, loop_x(image, bw_image, y, 1), y + 1)

convert_numba_loop(image, fill) ==
    IF Len(image.shape) # 3 THEN Raise("TypingError")
    ELSE LET bw_image == loop_y(image, np_empty(image.shape[1], image.shape[2], fill), 1)
         IN  Ok(ArrAsUint8(bw_image))

\* ------------------------------------------------------------------ inputs
ChannelVals == {0, 1, 128, 255}
TiePixels == {<<0, 0, 250>>, <<0, 4, 168>>, <<0, 12, 4>>, <<20, 6, 0>>,
              <<0, 80, 110>>, <<0, 36, 12>>, <<10, 9, 2>>,
              <<60, 28, 45>>, <<30, 229, 115>>}
ConvPixels == (ChannelVals \X ChannelVals \X ChannelVals) \cup TiePixels
SmallPixels == {<<0, 0, 0>>, <<255, 255, 255>>, <<0, 0, 250>>, <<0, 80, 110>>}
MidGray == <<128, 128, 128>>
ConvImages ==
    {MkImage(<<<<p>>>>) : p \in ConvPixels}
    \cup {MkImage(<<<<p, q>>>>) : p \in SmallPixels, q \in SmallPixels}
    \cup {MkImage(<<<<p>>, <<q>>>>) : p \in SmallPixels, q \in SmallPixels}
    \cup {MkImage([y \in 1..4 |-> [x \in 1..4 |-> MidGray]]),
          MkImage(<<<<MidGray, <<0, 12, 4>>>>, <<<<255, 0, 0>>, <<60, 28, 45>>>>>>)}
FillVals == {0, 255}

GrayFile == MkGray(<<<<7>>>>)
MainImages == {MkImage(<<<<MidGray>>>>),
               MkImage(<<<<<<0, 0, 250>>, <<0, 80, 110>>>>>>),
               MkImage(<<<<<<255, 255, 255>>>>, <<<<0, 12, 4>>>>>>),
               GrayFile}

\* a file name is <<stem, suffix>>
JpgNames == {<<"a", "JPG">>, <<"b", "JPG">>}
OtherNames == {<<"c", "jpg">>}
\* the possible contents of the input directory
Directories ==
    UNION {[S -> MainImages] : S \in SUBSET (JpgNames \cup OtherNames)}

Max(a, b) == IF a >= b THEN a ELSE b
RECURSIVE SeqMax(_)
SeqMax(q) == IF q = <<>> THEN 0 ELSE Max(Head(q), SeqMax(Tail(q)))
Prefix(q, n) == [i \in 1..n |-> q[i]]
IsPrefix(q, r) == Len(q) <= Len(r) /\ q = Prefix(r, Len(q))
RemoveAt(q, i) == [j \in 1..(Len(q) - 1) |-> IF j < i THEN q[j] ELSE q[j + 1]]
Orderings(S) == {q \in [1..Cardinality(S) -> S] : \A i, j \in DOMAIN q : i # j => q[i] # q[j]}

\* ------------------------------------------------------------------- state
VARIABLES
    pc,               \* position of main (or of the converter runs)
    dir,              \* input directory: file name -> decoded content
    output_dir_exists,
    input_filepaths,  \* list(input_path.glob('*.JPG'))
    idx,              \* index of e in input_filepaths
    image,
    bw_image_a, bw_image_b, bw_image_c,
    output_files,     \* output directory: file name -> grid handed to imsave
    console,          \* labels of the lines printed
    exc,              \* the exception that ended the process, or "none"
    tracing,          \* tracemalloc: is tracing active
    traced_current,   \* tracemalloc: traced memory now
    traced_peak,      \* tracemalloc: peak traced memory
    live,             \* traced blocks the wrapped call holds
    pf_pc,            \* position inside profile_function
    pf_func, pf_args, pf_kwargs,
    output,           \* profile_function's local
    ret,              \* the triple profile_function returned
    nevents,          \* allocation events of the wrapped call so far
    \* history variables, read only by the properties
    invocations,      \* calls of func made by the current harness call
    results,          \* values those calls returned
    history,          \* traced_current at each instant since tracing began
    call_end,         \* Len(history) when the wrapped call returned
    regions,          \* traced regions begun and not yet ended
    order,            \* harness begin/end and assertion-pass events, current file
    saves             \* file names handed to imsave, in order

vars == <<pc, dir, output_dir_exists, input_filepaths, idx, image,
          bw_image_a, bw_image_b, bw_image_c, output_files, console, exc,
          tracing, traced_current, traced_peak, live,
          pf_pc, pf_func, pf_args, pf_kwargs, output, ret, nevents,
          invocations, results, history, call_end, regions, order, saves>>

mainVars == <<pc, dir, output_dir_exists, input_filepaths, idx, image,
              bw_image_a, bw_image_b, bw_image_c, output_files, console, exc, saves>>
traceVars == <<tracing, traced_current, traced_peak, live>>
pfVars == <<pf_pc, pf_func, pf_args, pf_kwargs, output, ret, nevents>>
ghostVars == <<invocations, results, history, call_end, regions, order>>

NoGrid == <<>>
NoImage == [shape |-> <<>>, data |-> <<>>]

InitCommon ==
    /\ output_dir_exists \in BOOLEAN
    /\ input_filepaths = <<>>
    /\ idx = 0
    /\ bw_image_a = NoGrid /\ bw_image_b = NoGrid /\ bw_image_c = NoGrid
    /\ output_files = <<>>
    /\ console = <<>>
    /\ exc = "none"
    /\ tracing = FALSE /\ traced_current = 0 /\ traced_peak = 0 /\ live = <<>>
    /\ pf_pc = "idle" /\ pf_func = "none" /\ pf_args = <<>> /\ pf_kwargs = <<>>
    /\ output = NoGrid /\ ret = <<>> /\ nevents = 0
    /\ invocations = <<>> /\ results = <<>> /\ history = <<>> /\ call_end = 0
    /\ regions = 0
    /\ order = <<>> /\ saves = <<>>

Init ==
    /\ InitCommon
    /\ pc = "start"
    /\ dir \in Directories
    /\ image = NoImage

\* -------------------------------------------------------------- tracemalloc
\* an allocation of n traced bytes while tracing is on
AllocCurrent(n) == traced_current + n
AllocPeak(n) == Max(traced_peak, traced_current + n)

\* tracemalloc.get_traced_memory() is (current, peak); this reads the pair
\* as it stands after the second clock read allocated n bytes
get_traced_memory(n) == <<AllocCurrent(n), AllocPeak(n)>>

\* --------------------------------------------------------- profile_function
\* func(*args, **kwargs); fill is what the memory np.empty returns holds
Apply(func, args, fill) ==
    CASE func = "convert_numpy" -> convert_numpy(args[1])
      [] func = "convert_numba" -> convert_numba(args[1])
      [] func = "convert_numba_loop" -> convert_numba_loop(args[1], fill)

\* lines 80-81: tracemalloc.start(); start_time = time.time()
\* (start() does nothing when tracing is already on; the clock read returns a
\* new float object, which is a traced allocation unless the interpreter
\* reuses a freed one)
PF_Start ==
    /\ pf_pc = "entered"
    /\ \E n \in 0..MaxClockAlloc :
         /\ tracing' = TRUE
         /\ traced_current' = (IF tracing THEN traced_current ELSE 0) + n
         /\ traced_peak' = Max(IF tracing THEN traced_peak ELSE 0,
                               (IF tracing THEN traced_current ELSE 0) + n)
         /\ history' = <<0, n>>
    /\ regions' = regions + 1
    /\ pf_pc' = "timed"
    /\ nevents' = 0
    /\ call_end' = 0
    /\ invocations' = <<>>
    /\ results' = <<>>
    /\ order' = Append(order, <<"begin", pf_func>>)
    /\ UNCHANGED <<mainVars, live, pf_func, pf_args, pf_kwargs, output, ret>>

\* variant of line 82 that calls func a second time
PF_Call_twice ==
    /\ pf_pc = "timed"
    /\ invocations' = invocations \o
           <<[func |-> pf_func, args |-> pf_args, kwargs |-> pf_kwargs],
             [func |-> pf_func, args |-> pf_args, kwargs |-> pf_kwargs]>>
    /\ pf_pc' = "in_call"
    /\ UNCHANGED <<mainVars, traceVars, pf_func, pf_args, pf_kwargs, output, ret,
                   nevents, results, history, call_end, regions, order>>

\* line 82: func(*args, **kwargs) is entered
PF_Call ==
    /\ pf_pc = "timed"
    /\ invocations' = Append(invocations,
           [func |-> pf_func, args |-> pf_args, kwargs |-> pf_kwargs])
    /\ pf_pc' = "in_call"
    /\ UNCHANGED <<mainVars, traceVars, pf_func, pf_args, pf_kwargs, output, ret,
                   nevents, results, history, call_end, regions, order>>

\* the wrapped call allocates a traced block
Func_Alloc ==
    /\ pf_pc = "in_call"
    /\ nevents < MaxEvents
    /\ \E n \in 1..MaxBlock :
         /\ traced_current' = AllocCurrent(n)
         /\ traced_peak' = AllocPeak(n)
         /\ live' = Append(live, n)
         /\ history' = Append(history, AllocCurrent(n))
    /\ nevents' = nevents + 1
    /\ UNCHANGED <<mainVars, tracing, pf_pc, pf_func, pf_args, pf_kwargs, output, ret,
                   invocations, results, call_end, regions, order>>

\* the wrapped call frees a traced block
Func_Free ==
    /\ pf_pc = "in_call"
    /\ nevents < MaxEvents
    /\ \E i \in DOMAIN live :
         /\ traced_current' = traced_current - live[i]
         /\ live' = RemoveAt(live, i)
         /\ history' = Append(history, traced_current - live[i])
    /\ nevents' = nevents + 1
    /\ UNCHANGED <<mainVars, tracing, traced_peak, pf_pc, pf_func, pf_args, pf_kwargs,
                   output, ret, invocations, results, call_end, regions, order>>

\* the values the wrapped call can return
Outcomes(func, args) == {Apply(func, args, fill) : fill \in FillVals}

\* line 82: the wrapped call returns; output = its value
Func_Return ==
    /\ pf_pc = "in_call"
    /\ \E res \in Outcomes(pf_func, pf_args) :
         /\ ~res.raised
         /\ output' = res.value
         /\ results' = Append(results, res.value)
    /\ call_end' = Len(history)
    /\ pf_pc' = "after_call"
    /\ UNCHANGED <<mainVars, traceVars, pf_func, pf_args, pf_kwargs, ret, nevents,
                   invocations, history, regions, order>>

\* line 82: the wrapped call raises; nothing in profile_function or main
\* catches it, so the process ends with the traceback
Func_Raise ==
    /\ pf_pc = "in_call"
    /\ \E res \in Outcomes(pf_func, pf_args) :
         /\ res.raised
         /\ exc' = res.exc
    /\ pf_pc' = "unwound"
    /\ pc' = "halted"
    /\ UNCHANGED <<dir, output_dir_exists, input_filepaths, idx, image,
                   bw_image_a, bw_image_b, bw_image_c, output_files, console, saves,
                   traceVars, pf_func, pf_args, pf_kwargs, output, ret, nevents,
                   ghostVars>>

\* variant of lines 83-88 without tracemalloc.stop()
PF_Finish_nostop ==
    /\ pf_pc = "after_call"
    /\ \E n \in 0..MaxClockAlloc :
         /\ ret' = <<output, nevents, get_traced_memory(n)[2]>>
         /\ history' = Append(history, AllocCurrent(n))
         /\ traced_current' = AllocCurrent(n)
         /\ traced_peak' = AllocPeak(n)
    /\ pf_pc' = "returned"
    /\ order' = Append(order, <<"end", pf_func>>)
    /\ UNCHANGED <<mainVars, tracing, live, regions, pf_func, pf_args, pf_kwargs,
                   output, nevents, invocations, results, call_end>>

\* lines 83-88: end_time = time.time(); max_memory = peak; tracemalloc.stop()
\* (which also clears the traces); return output, elapsed_time, max_memory.
\* Wall-clock time is logical here: one tick per event of the wrapped call.
PF_Finish ==
    /\ pf_pc = "after_call"
    /\ \E n \in 0..MaxClockAlloc :
         /\ ret' = <<output, nevents, get_traced_memory(n)[2]>>
         /\ history' = Append(history, AllocCurrent(n))
    /\ tracing' = FALSE
    /\ traced_current' = 0
    /\ traced_peak' = 0
    /\ live' = <<>>
    /\ regions' = regions - 1
    /\ pf_pc' = "returned"
    /\ order' = Append(order, <<"end", pf_func>>)
    /\ UNCHANGED <<mainVars, pf_func, pf_args, pf_kwargs, output, nevents,
                   invocations, results, call_end>>

\* ---------------------------------------------------------------------- main
\* variant: a case-insensitive match
glob_match_nocase(name) == name[2] \in {"JPG", "jpg"}

\* does input_path.glob('*.JPG') match the file name (case-sensitive)
glob_match(name) == name[2] = "JPG"

\* e.stem + '_bw.jpg'
OutName(name) == <<name[1], "_bw.jpg">>

\* variant: convert_numba profiled before convert_numpy
FuncAt_swapped(p) ==
    CASE p = "call_a" -> "convert_numba"
      [] p = "call_b" -> "convert_numpy"
      [] p = "call_c" -> "convert_numba_loop"

\* the converter main hands to profile_function at lines 125, 128 and 132
FuncAt(p) ==
    CASE p = "call_a" -> "convert_numpy"
      [] p = "call_b" -> "convert_numba"
      [] p = "call_c" -> "convert_numba_loop"

Label(p) ==
    CASE p = "call_a" -> "numpy"
      [] p = "call_b" -> "numba"
      [] p = "call_c" -> "numba_loop"

\* lines 107-111: list the matching files (in the order the directory yields
\* them) and create the output directory if it is absent
Glob ==
    /\ pc = "start"
    /\ input_filepaths' \in Orderings({n \in DOMAIN dir : glob_match(n)})
    /\ output_dir_exists' = TRUE
    /\ pc' = "loop"
    /\ UNCHANGED <<dir, idx, image, bw_image_a, bw_image_b, bw_image_c, output_files,
                   console, exc, saves, traceVars, pfVars, ghostVars>>

\* lines 119-123: next e, or the end of the loop; image = io.imread(e); print
LoopNext ==
    /\ pc = "loop"
    /\ IF idx < Len(input_filepaths)
       THEN /\ idx' = idx + 1
            /\ image' = dir[input_filepaths[idx + 1]]
            /\ console' = Append(console, "blank")
            /\ order' = <<>>
            /\ pc' = "call_a"
       ELSE /\ pc' = "done"
            /\ UNCHANGED <<idx, image, console, order>>
    /\ UNCHANGED <<dir, output_dir_exists, input_filepaths, bw_image_a, bw_image_b,
                   bw_image_c, output_files, exc, saves, traceVars, pfVars,
                   invocations, results, history, call_end, regions>>

\* lines 125, 128, 132: profile_function(convert_..., image) is entered
ProfileCall ==
    /\ pc \in {"call_a", "call_b", "call_c"}
    /\ pf_pc = "idle"
    /\ pf_func' = FuncAt(pc)
    /\ pf_args' = <<image>>
    /\ pf_kwargs' = <<>>
    /\ pf_pc' = "entered"
    /\ UNCHANGED <<mainVars, traceVars, output, ret, nevents, ghostVars>>

\* lines 125-126, 128-129, 132-133: bind the returned triple and print
Bind ==
    /\ pc \in {"call_a", "call_b", "call_c"}
    /\ pf_pc = "returned"
    /\ bw_image_a' = IF pc = "call_a" THEN ret[1] ELSE bw_image_a
    /\ bw_image_b' = IF pc = "call_b" THEN ret[1] ELSE bw_image_b
    /\ bw_image_c' = IF pc = "call_c" THEN ret[1] ELSE bw_image_c
    /\ console' = Append(console, Label(pc))
    /\ pc' = CASE pc = "call_a" -> "call_b"
               [] pc = "call_b" -> "assert_b"
               [] pc = "call_c" -> "assert_c"
    /\ pf_pc' = "idle"
    /\ ret' = <<>>
    /\ history' = <<>>
    /\ call_end' = 0
    /\ invocations' = <<>>
    /\ results' = <<>>
    /\ output' = NoGrid
    /\ nevents' = 0
    /\ UNCHANGED <<dir, output_dir_exists, input_filepaths, idx, image, output_files,
                   exc, saves, traceVars, pf_func, pf_args, pf_kwargs, regions, order>>

\* np.array_equal: same shape and same elements
array_equal(a, b) == a = b

\* line 130: assert np.array_equal(bw_image_a, bw_image_b)
AssertB ==
    /\ pc = "assert_b"
    /\ IF array_equal(bw_image_a, bw_image_b)
       THEN pc' = "call_c" /\ exc' = exc /\ order' = Append(order, <<"pass", "b">>)
       ELSE pc' = "halted" /\ exc' = "AssertionError" /\ order' = order
    /\ UNCHANGED <<dir, output_dir_exists, input_filepaths, idx, image, bw_image_a,
                   bw_image_b, bw_image_c, output_files, console, saves,
                   traceVars, pfVars, invocations, results, history, call_end, regions>>

\* variant of line 134 with the assertion not evaluated
AssertC_skipped ==
    /\ pc = "assert_c"
    /\ pc' = "save"
    /\ order' = Append(order, <<"pass", "c">>)
    /\ UNCHANGED <<dir, output_dir_exists, input_filepaths, idx, image, bw_image_a,
                   bw_image_b, bw_image_c, output_files, console, exc, saves,
                   traceVars, pfVars, invocations, results, history, call_end, regions>>

\* line 134: assert np.array_equal(bw_image_a, bw_image_c)
AssertC ==
    /\ pc = "assert_c"
    /\ IF array_equal(bw_image_a, bw_image_c)
       THEN pc' = "save" /\ exc' = exc /\ order' = Append(order, <<"pass", "c">>)
       ELSE pc' = "halted" /\ exc' = "AssertionError" /\ order' = order
    /\ UNCHANGED <<dir, output_dir_exists, input_filepaths, idx, image, bw_image_a,
                   bw_image_b, bw_image_c, output_files, console, saves,
                   traceVars, pfVars, invocations, results, history, call_end, regions>>

\* lines 136-138: io.imsave(output_path / (e.stem + '_bw.jpg'), bw_image_a)
Save ==
    /\ pc = "save"
    /\ output_files' = (OutName(input_filepaths[idx]) :> bw_image_a) @@ output_files
    /\ saves' = Append(saves, OutName(input_filepaths[idx]))
    /\ pc' = "loop"
    /\ UNCHANGED <<dir, output_dir_exists, input_filepaths, idx, image, bw_image_a,
                   bw_image_b, bw_image_c, console, exc, traceVars, pfVars, ghostVars>>

Next ==
    \/ Glob \/ LoopNext \/ ProfileCall \/ Bind \/ AssertB \/ AssertC \/ Save
    \/ PF_Start \/ PF_Call \/ Func_Alloc \/ Func_Free \/ Func_Return \/ Func_Raise
    \/ PF_Finish

Spec == Init /\ [][Next]_vars

\* ------------------------------------------------- the gate, in isolation
\* convert_numba and convert_numba_loop run as machine code produced by the
\* numba compiler, which is not part of this repository. GateSpec places no
\* trust in it: a compiled converter may return its proper grid or a grid
\* that differs from it, so that both branches of the assertions are taken.
Perturb(grid) == [grid EXCEPT ![1][1] = (@ + 1) % 256]

GateOutcomes(func, args) ==
    Outcomes(func, args) \cup
    (IF func = "convert_numpy" THEN {}
     ELSE {Ok(Perturb(res.value)) : res \in {r \in Outcomes(func, args) : ~r.raised}})

Func_Return_Gate ==
    /\ pf_pc = "in_call"
    /\ \E res \in GateOutcomes(pf_func, pf_args) :
         /\ ~res.raised
         /\ output' = res.value
         /\ results' = Append(results, res.value)
    /\ call_end' = Len(history)
    /\ pf_pc' = "after_call"
    /\ UNCHANGED <<mainVars, traceVars, pf_func, pf_args, pf_kwargs, ret, nevents,
                   invocations, history, regions, order>>

NextGate ==
    \/ Glob \/ LoopNext \/ ProfileCall \/ Bind \/ AssertB \/ AssertC \/ Save
    \/ PF_Start \/ PF_Call \/ Func_Alloc \/ Func_Free \/ Func_Return_Gate
    \/ Func_Raise \/ PF_Finish

GateSpec == Init /\ [][NextGate]_vars

\* ------------------------------------------- the converters, on their own
InitConv ==
    /\ InitCommon
    /\ pc = "conv_a"
    /\ dir = <<>>
    /\ image \in ConvImages

\* bw_image_a = convert_numpy(image)
Conv_numpy ==
    /\ pc = "conv_a"
    /\ bw_image_a' = convert_numpy(image).value
    /\ pc' = "conv_b"
    /\ UNCHANGED <<dir, output_dir_exists, input_filepaths, idx, image, bw_image_b,
                   bw_image_c, output_files, console, exc, saves, traceVars, pfVars,
                   ghostVars>>

\* bw_image_b = convert_numba(image)
Conv_numba ==
    /\ pc = "conv_b"
    /\ bw_image_b' = convert_numba(image).value
    /\ pc' = "conv_c"
    /\ UNCHANGED <<dir, output_dir_exists, input_filepaths, idx, image, bw_image_a,
                   bw_image_c, output_files, console, exc, saves, traceVars, pfVars,
                   ghostVars>>

\* bw_image_c = convert_numba_loop(image)
Conv_numba_loop ==
    /\ pc = "conv_c"
    /\ \E fill \in FillVals : bw_image_c' = convert_numba_loop(image, fill).value
    /\ pc' = "conv_done"
    /\ UNCHANGED <<dir, output_dir_exists, input_filepaths, idx, image, bw_image_a,
                   bw_image_b, output_files, console, exc, saves, traceVars, pfVars,
                   ghostVars>>

NextConv == Conv_numpy \/ Conv_numba \/ Conv_numba_loop

ConvSpec == InitConv /\ [][NextConv]_vars

Pixels(img) == {<<y, x>> : y \in 1..img.shape[1], x \in 1..img.shape[2]}

\* ================================================================ properties

\* C1: for every valid input image the three converters return the same
\* grid, value for value, and each pixel of it is the ties-to-even rounding
\* of the binary64 weighted sum of that pixel, also when the sum is exactly X.5
C1_ConvertersAgree ==
    pc = "conv_done" =>
        /\ array_equal(bw_image_a, bw_image_b)
        /\ array_equal(bw_image_a, bw_image_c)
        /\ DOMAIN bw_image_a = 1..image.shape[1]
        /\ \A y \in 1..image.shape[1] :
             /\ DOMAIN bw_image_a[y] = 1..image.shape[2]
             /\ \A x \in 1..image.shape[2] :
                  bw_image_a[y][x] = np_round(WeightedSum(image.data[y][x]))

\* a two-pixel image whose first pixel sums to exactly 28.5 has been converted
C1_Witness ==
    /\ pc = "conv_done"
    /\ image.shape = <<1, 2, 3>>
    /\ image.data[1][1] = <<0, 0, 250>>
    /\ IsHalf(WeightedSum(image.data[1][1]))
    /\ bw_image_c[1][1] = 28
    /\ bw_image_c[1][2] = 59

\* C2: a converter output that differs from the baseline halts the process
\* with an assertion failure at once, nothing is written for that file or
\* any later one, and a file is written only after both checks on it passed
C2_AssertionGate ==
    /\ [](exc = "AssertionError" =>
            /\ pc = "halted"
            /\ OutName(input_filepaths[idx]) \notin DOMAIN output_files
            /\ Len(saves) = idx - 1)
    /\ [][((pc = "assert_b" /\ ~array_equal(bw_image_a, bw_image_b))
           \/ (pc = "assert_c" /\ ~array_equal(bw_image_a, bw_image_c)))
          => (pc' = "halted" /\ exc' = "AssertionError"
              /\ output_files' = output_files /\ saves' = saves)]_vars
    /\ [][pc = "halted" => (output_files' = output_files /\ saves' = saves)]_vars
    /\ [][(output_files' # output_files \/ saves' # saves) =>
            /\ \E i \in DOMAIN order : order[i] = <<"pass", "b">>
            /\ \E i \in DOMAIN order : order[i] = <<"pass", "c">>
            /\ array_equal(bw_image_a, bw_image_b)
            /\ array_equal(bw_image_a, bw_image_c)]_vars

\* the second file failed an assertion after the first file was written
C2_Witness ==
    /\ pc = "halted"
    /\ exc = "AssertionError"
    /\ idx = 2
    /\ Len(saves) = 1
    /\ ~array_equal(bw_image_a, bw_image_c)

\* C3: tracing is on throughout the wrapped call and off whenever
\* profile_function has returned normally, so none leaks into the next call
C3_TracingScoped ==
    /\ pf_pc \in {"timed", "in_call", "after_call"} => tracing
    /\ pf_pc \in {"returned", "idle", "entered"} =>
         (~tracing /\ traced_current = 0 /\ traced_peak = 0)

\* the harness has returned from a call made for the second file
C3_Witness == pf_pc = "returned" /\ idx = 2 /\ pf_func = "convert_numba" /\ nevents > 0

\* C4: one harness call invokes func exactly once, with exactly the given
\* positional and keyword arguments, and the first component of the triple
\* it returns is the value that invocation returned
C4_SingleInvocation ==
    /\ Len(invocations) <= 1
    /\ pf_pc \in {"in_call", "after_call", "returned"} =>
         invocations = <<[func |-> FuncAt(pc), args |-> <<image>>, kwargs |-> <<>>]>>
    /\ pf_pc = "returned" =>
         (Len(results) = 1 /\ Len(ret) = 3 /\ ret[1] = results[1])

C4_Witness ==
    /\ pf_pc = "returned"
    /\ pf_func = "convert_numba_loop"
    /\ Len(invocations) = 1
    /\ ret[1] = <<<<28, 59>>>>

\* C5: the returned memory figure equals the largest traced memory
\* at any instant between the start of tracing and the end of the wrapped call
C5_PeakOverCall ==
    pf_pc = "returned" => ret[3] = SeqMax(Prefix(history, call_end))

\* C6: when main completes, exactly one image has been written per matched
\* <stem>.JPG, at <stem>_bw.jpg, holding the baseline result for that file,
\* and nothing else has been written
C6_OneOutputPerInput ==
    pc = "done" =>
        LET matched == {n \in DOMAIN dir : n[2] = "JPG"}
        IN  /\ DOMAIN output_files = {<<n[1], "_bw.jpg">> : n \in matched}
            /\ \A n \in matched :
                 output_files[<<n[1], "_bw.jpg">>] = convert_numpy(dir[n]).value
            /\ Len(saves) = Cardinality(matched)
            /\ \A i, j \in DOMAIN saves : i # j => saves[i] # saves[j]

C6_Witness ==
    /\ pc = "done"
    /\ Cardinality(DOMAIN output_files) = 2
    /\ <<"c", "jpg">> \in DOMAIN dir
    /\ output_files[<<"a", "_bw.jpg">>] # output_files[<<"b", "_bw.jpg">>]

\* C7: for every pixel the rounded weighted sum lies in 0..255, so the cast
\* to unsigned 8-bit leaves it unchanged in every converter
C7_RoundedSumInRange ==
    pc = "conv_done" =>
        \A c \in Pixels(image) :
            LET n == np_round(WeightedSum(image.data[c[1]][c[2]]))
                m == loop_pixel(image.data[c[1]][c[2]])
            IN  /\ n \in 0..255
                /\ m \in 0..255
                /\ bw_image_a[c[1]][c[2]] = n
                /\ bw_image_b[c[1]][c[2]] = n
                /\ bw_image_c[c[1]][c[2]] = m

\* the all-255 pixel has been converted, to 255
C7_Witness ==
    /\ pc = "conv_done"
    /\ image.data[1][1] = <<255, 255, 255>>
    /\ bw_image_a[1][1] = 255
    /\ bw_image_c[1][1] = 255

ExpectedOrder ==
    <<<<"begin", "convert_numpy">>, <<"end", "convert_numpy">>,
      <<"begin", "convert_numba">>, <<"end", "convert_numba">>, <<"pass", "b">>,
      <<"begin", "convert_numba_loop">>, <<"end", "convert_numba_loop">>,
      <<"pass", "c">>>>

\* C8: for each file the harness runs convert_numpy, convert_numba and
\* convert_numba_loop in that order, each ending before the next begins; at
\* most one traced region is open, and every harness call begins untraced
C8_SequentialRegions ==
    /\ regions \in {0, 1}
    /\ pf_pc = "entered" => (~tracing /\ regions = 0)
    /\ IsPrefix(order, ExpectedOrder)
    /\ pf_pc \in {"timed", "in_call", "after_call"} =>
         (regions = 1 /\ order[Len(order)] = <<"begin", pf_func>>)

\* the third harness call for the second file is about to begin
C8_Witness ==
    /\ pf_pc = "entered"
    /\ pf_func = "convert_numba_loop"
    /\ idx = 2
    /\ Len(order) = 5

\* C9: when the wrapped callable raises, tracing is off by the time the
\* failure has left the harness
C9_TornDownOnFailure == pf_pc = "unwound" => ~tracing

HalfBelow(n) == <<0, 0, (n - 1) * 2^(UnitBits - 2 * LimbBits) + HalfHigh>>

\* C10 as stated: for a pixel (128,128,128) the un-rounded weighted sum the
\* converters compute is exactly 128
C10_SumExactly128 ==
    pc = "conv_done" =>
        \A c \in Pixels(image) :
            image.data[c[1]][c[2]] = MidGray =>
                WeightedSum(image.data[c[1]][c[2]]) = FromInt(128)

\* C10 as amended: for a pixel (128,128,128) the un-rounded weighted sum lies
\* strictly between 127.5 and 128, and all three converters round it up to 128
C10_RoundedUpTo128 ==
    pc = "conv_done" =>
        \A c \in Pixels(image) :
            image.data[c[1]][c[2]] = MidGray =>
                /\ Less(HalfBelow(128), WeightedSum(MidGray))
                /\ Less(WeightedSum(MidGray), FromInt(128))
                /\ bw_image_a[c[1]][c[2]] = 128
                /\ bw_image_b[c[1]][c[2]] = 128
                /\ bw_image_c[c[1]][c[2]] = 128

\* the 4 x 4 mid-gray image has been converted
C10_Witness ==
    /\ pc = "conv_done"
    /\ image.shape = <<4, 4, 3>>
    /\ \A c \in Pixels(image) : image.data[c[1]][c[2]] = MidGray
    /\ bw_image_a[4][4] = 128

=============================================================================
